---- MODULE Spec2Model ----
(***************************************************************************)
(* The BleScanner React component of azizbeksiddikov/aiou_2_hackathon as a *)
(* state machine.  The repository holds three near-identical versions of   *)
(* the component; the model carries the version as the variable `variant`: *)
(*   "main"       src/src/components/BleScanner.tsx lines 1-1034           *)
(*   "unfiltered" src/src/components/BleScanner.tsx lines 1036-1423        *)
(*   "glass"      src/unnamed/part_000                                     *)
(* The React state (useState cells) is one variable per cell.  Every async *)
(* function is cut at its awaits: the synchronous part up to an await is   *)
(* one action, and each settlement of the awaited platform promise is one  *)
(* action running the continuation up to the next await.  The Web          *)
(* Bluetooth platform is the environment: it settles every call either     *)
(* way, drops links, and dispatches gattserverdisconnected synchronously   *)
(* from inside gatt.disconnect().                                          *)
(*                                                                         *)
(* Not modelled: isLoadingInfo and isMounted (presentation only), the      *)
(* rssi field (never written) and console logging.  Two BleDevice objects  *)
(* with the same id are taken to be the same object.                       *)
(***************************************************************************)
EXTENDS Integers, Sequences, FiniteSets, TLC

(***************************************************************************)
(* Bounds of the model.                                                    *)
(***************************************************************************)
\* connectToDevice calls that may be suspended at an await at the same time.
MaxAttempts == 1
\* disconnect observers the model lets accumulate on one device.
MaxListeners == 2
\* pending setTimeout callbacks.
MaxTimers == 1
MaxPending == 2

(***************************************************************************)
(* Values.                                                                 *)
(***************************************************************************)
\* A nullable or optional cell holds Null (null, undefined) or Some(x).
Null == <<>>
Some(x) == <<x>>

Variants == {"main", "unfiltered", "glass"}
HasInspector(v) == v \in {"main", "glass"}
HasAutoScan(v) == v \in {"main", "unfiltered"}
HasDisconnectButton(v) == v \in {"main", "unfiltered"}

\* The peripherals in radio range, both named piggybank*: every variant's
\* chooser offers both.
DeviceIds == {"pb1", "pb2"}

\* BluetoothDevice.name as the platform reports it ("" stands for no name).
PlatformName(d) == CASE d = "pb1" -> "piggybank1"
                     [] d = "pb2" -> "piggybank2"
                     [] OTHER -> ""

\* requestDevice's filter: namePrefix "piggybank", or acceptAllDevices.
Offered(v) == DeviceIds

\* const bleDevice = { id: device.id, name: device.name || "Unknown Device", device }
BleDeviceOf(d) == [id |-> d,
                   name |-> IF PlatformName(d) = "" THEN "Unknown Device" ELSE PlatformName(d)]

ConnectionStatuses == {"idle", "connecting", "connected", "failed", "disconnected"}

\* What a rejected platform promise carries: an Error with a name and a
\* message, or a thrown value that is no Error.
DomError(n, m) == [isError |-> TRUE, name |-> n, message |-> m]
NonError == [isError |-> FALSE, name |-> "", message |-> ""]

\* The ways the platform rejects requestDevice.
ScanFailures == {DomError("NotFoundError", "User cancelled the requestDevice() chooser."),
                 DomError("SecurityError", "Must be handling a user gesture to show a permission request."),
                 DomError("NotSupportedError", "Bluetooth adapter not available."),
                 NonError}

\* The ways the platform rejects gatt.connect().
ConnectFailures == {DomError("NetworkError", "Connection attempt failed."), NonError}

\* The ways the platform rejects writeValue.
WriteFailures == {DomError("NetworkError", "GATT operation failed for unknown reason."), NonError}

(***************************************************************************)
(* scanForDevices: the messages of its catch block.  In the main variant   *)
(* the SecurityError text holds two arrows (U+2192), written -> here.      *)
(***************************************************************************)
MsgNotAvailable == "Web Bluetooth API is not available"
MsgNotSupported == "Web Bluetooth API is not supported in this browser. Please use Chrome, Edge, or Opera."
MsgNoDeviceSelected == "No device selected. Please try scanning again."
MsgAccessDenied(v) ==
    IF v = "glass"
    THEN "Bluetooth access denied. Enable Bluetooth and grant permission in browser settings."
    ELSE "Bluetooth access denied. Please check: (1) Bluetooth is enabled on your device, (2) You're on HTTPS or localhost, (3) Reset site permissions by clicking the lock icon in the address bar -> Site settings -> Bluetooth -> Ask (default)."

\* A faulty catch block: the Error's name is not looked at.
ScanErrorMessageByMessageOnly(v, err) ==
    IF err.isError
    THEN "Error scanning for devices: " \o err.message
    ELSE "An unknown error occurred while scanning"

ScanErrorMessage(v, err) ==
    IF err.isError
    THEN IF err.name = "NotFoundError" THEN MsgNoDeviceSelected
         ELSE IF err.name = "SecurityError" THEN MsgAccessDenied(v)
         ELSE "Error scanning for devices: " \o err.message
    ELSE "An unknown error occurred while scanning"

\* A faulty updater: appends without looking for the id.
AddDeviceUnchecked(prev, b) == Append(prev, b)

\* The updater handed to setDevices: (prev) => prev.some(d => d.id === id) ? prev : [...prev, bleDevice]
AddDevice(prev, b) ==
    IF \E i \in 1..Len(prev) : prev[i].id = b.id THEN prev ELSE Append(prev, b)

(***************************************************************************)
(* The peripherals' GATT databases, as the platform reports them.          *)
(***************************************************************************)
BatteryService == "0000180f-0000-1000-8000-00805f9b34fb"
DeviceInformation == "0000180a-0000-1000-8000-00805f9b34fb"
GenericAccess == "00001800-0000-1000-8000-00805f9b34fb"
NordicUart == "6e400001-b5a3-f393-e0a9-e50e24dcca9e"

Props(r, w, wnr, n) == [read |-> r, write |-> w, writeWithoutResponse |-> wnr, notify |-> n]
Chr(uuid, props) == [uuid |-> uuid, properties |-> props]

\* getPrimaryServices: the services in the order the platform returns them.
\* The platform rejects when there is none.
ServicesOf(d) == CASE d = "pb1" -> <<BatteryService, DeviceInformation, NordicUart>>
                   [] d = "pb2" -> <<DeviceInformation, GenericAccess>>
                   [] OTHER -> <<>>

\* service.getCharacteristics(): Some(sequence), or Null when the platform rejects.
CharacteristicsOf(d, s) ==
    CASE d = "pb1" /\ s = BatteryService ->
           Some(<<Chr("00002a19-0000-1000-8000-00805f9b34fb", Props(TRUE, FALSE, FALSE, TRUE))>>)
      [] d = "pb1" /\ s = DeviceInformation ->
           Some(<<Chr("00002a29-0000-1000-8000-00805f9b34fb", Props(TRUE, FALSE, FALSE, FALSE))>>)
      [] d = "pb1" /\ s = NordicUart ->
           Some(<<Chr("6e400003-b5a3-f393-e0a9-e50e24dcca9e", Props(FALSE, FALSE, FALSE, TRUE)),
                  Chr("6e400002-b5a3-f393-e0a9-e50e24dcca9e", Props(FALSE, TRUE, TRUE, FALSE))>>)
      [] d = "pb2" /\ s = GenericAccess ->
           Some(<<Chr("00002a00-0000-1000-8000-00805f9b34fb", Props(TRUE, FALSE, FALSE, FALSE))>>)
      [] OTHER -> Null

\* The bytes battery_level reads, or Null when the service is absent.  pb1
\* answers with two bytes, the first above 127.
BatteryBytes(d) == IF d = "pb1" THEN Some(<<200, 1>>) ELSE Null

\* A faulty order of the reads: the model number first.
InfoFieldsModelFirst == <<"modelNumber", "manufacturer", "serialNumber",
                          "hardwareRevision", "firmwareRevision", "softwareRevision">>

InfoFields == <<"manufacturer", "modelNumber", "serialNumber",
                "hardwareRevision", "firmwareRevision", "softwareRevision">>

\* The bytes each device-information string reads, or Null when the
\* characteristic is absent.  pb1's model number ends in U+00E9, its serial
\* number is the empty string.
InfoBytes(d, f) ==
    CASE d = "pb1" /\ f = "manufacturer" -> Some(<<65, 99, 109, 101>>)
      [] d = "pb1" /\ f = "modelNumber" -> Some(<<80, 66, 195, 169>>)
      [] d = "pb1" /\ f = "serialNumber" -> Some(<<>>)
      [] d = "pb1" /\ f = "firmwareRevision" -> Some(<<49, 46, 48>>)
      [] d = "pb1" /\ f = "softwareRevision" -> Some(<<50, 46, 49>>)
      [] d = "pb2" /\ f = "manufacturer" -> Some(<<65, 99, 109, 101>>)
      [] OTHER -> Null

\* new TextDecoder("utf-8").decode(value): the code points of well-formed
\* UTF-8 of one- and two-byte sequences.
RECURSIVE Utf8Decode(_)
Utf8Decode(b) ==
    IF b = <<>> THEN <<>>
    ELSE IF b[1] < 128 THEN <<b[1]>> \o Utf8Decode(Tail(b))
    ELSE <<(b[1] % 32) * 64 + (b[2] % 64)>> \o Utf8Decode(Tail(Tail(b)))

\* A faulty encoder: two bytes per code point (UTF-16, little endian).
RECURSIVE Utf16Encode(_)
Utf16Encode(c) ==
    IF c = <<>> THEN <<>>
    ELSE <<c[1] % 256, c[1] \div 256>> \o Utf16Encode(Tail(c))

\* new TextEncoder().encode(value), on the code points of value.
RECURSIVE Utf8Encode(_)
Utf8Encode(c) ==
    IF c = <<>> THEN <<>>
    ELSE IF c[1] < 128 THEN <<c[1]>> \o Utf8Encode(Tail(c))
    ELSE <<192 + (c[1] \div 64), 128 + (c[1] % 64)>> \o Utf8Encode(Tail(c))

(***************************************************************************)
(* State.                                                                  *)
(***************************************************************************)
VARIABLES
    variant,                \* which version of the component runs
    bluetooth,              \* navigator.bluetooth is present
    strictMode,             \* React StrictMode (development build)
    phase,                  \* "constructed", then "mounted", then "unmounted"
    devices,                \* useState cells of the component
    isScanning,
    error,
    selectedDevice,
    connectionStatus,
    isSupported,
    deviceInfo,
    isSending,
    sendStatus,
    selectedCharacteristic,
    gattConnected,          \* device.gatt.connected, per device
    listeners,              \* gattserverdisconnected observers installed, per device
    scans,                  \* requestDevice calls not yet settled
    attempts,               \* connectToDevice calls suspended at an await
    writes,                 \* writeValue calls not yet settled
    timers,                 \* setTimeout callbacks not yet run
    last                    \* the step taken last and the platform calls it issued

vars == <<variant, bluetooth, strictMode, phase, devices, isScanning, error, selectedDevice,
          connectionStatus, isSupported, deviceInfo, isSending, sendStatus,
          selectedCharacteristic, gattConnected, listeners, scans, attempts,
          writes, timers, last>>

\* The useState cells as one record: a handler is a function from the cells
\* it finds to the cells it leaves, and nested calls compose.
UI == [devices |-> devices, isScanning |-> isScanning, error |-> error,
       selectedDevice |-> selectedDevice, connectionStatus |-> connectionStatus,
       isSupported |-> isSupported, deviceInfo |-> deviceInfo,
       isSending |-> isSending, sendStatus |-> sendStatus,
       selectedCharacteristic |-> selectedCharacteristic]

Commit(u) ==
    /\ devices' = u.devices
    /\ isScanning' = u.isScanning
    /\ error' = u.error
    /\ selectedDevice' = u.selectedDevice
    /\ connectionStatus' = u.connectionStatus
    /\ isSupported' = u.isSupported
    /\ deviceInfo' = u.deviceInfo
    /\ isSending' = u.isSending
    /\ sendStatus' = u.sendStatus
    /\ selectedCharacteristic' = u.selectedCharacteristic

\* One call of the platform API; data is the byte sequence of a write.
Call(api, dev, target, data) == [api |-> api, dev |-> dev, target |-> target, data |-> data]
\* The step taken last: the handler or continuation, the device it concerns,
\* whether the awaited call had resolved, the name of the error it rejected
\* with, the platform calls the step issued, in order, and the device list
\* the step found.
StepOf(op, dev, ok, err, calls) ==
    [op |-> op, dev |-> dev, ok |-> ok, err |-> err, calls |-> calls, listed |-> devices]

\* s without its i-th element.
RemoveAt(s, i) == SubSeq(s, 1, i - 1) \o SubSeq(s, i + 1, Len(s))

\* The controls are rendered once mounted, unless the "Bluetooth Not
\* Supported" card replaces them.
Rendered == phase = "mounted" /\ isSupported

(***************************************************************************)
(* Construction: the useState initial values.                              *)
(***************************************************************************)
Setup ==
    /\ variant \in Variants
    /\ bluetooth \in BOOLEAN
    /\ phase = "constructed"
    /\ devices = <<>>
    /\ isScanning = FALSE
    /\ error = Null
    /\ selectedDevice = Null
    /\ connectionStatus = "idle"
    /\ isSupported = TRUE
    /\ deviceInfo = Null
    /\ isSending = FALSE
    /\ sendStatus = Null
    /\ selectedCharacteristic = Null
    /\ gattConnected = [d \in DeviceIds |-> FALSE]
    /\ listeners = [d \in DeviceIds |-> 0]
    /\ scans = <<>>
    /\ attempts = <<>>
    /\ writes = <<>>
    /\ timers = <<>>
    /\ last = StepOf("construct", "", TRUE, "", <<>>)

\* The production build.
Init == Setup /\ strictMode = FALSE

\* The production or the development build.
InitAnyBuild == Setup /\ strictMode \in BOOLEAN

\* React runs a mount effect once, and twice under StrictMode.
MountEffectRuns == IF strictMode THEN 2 ELSE 1

(***************************************************************************)
(* Discovery.                                                              *)
(***************************************************************************)
\* A faulty scanForDevices without the navigator.bluetooth check.
ScanBeginUnchecked(u) ==
    [u EXCEPT !.isScanning = TRUE, !.error = Null, !.devices = <<>>]

\* scanForDevices up to its await: the cells it leaves.
ScanBegin(u) ==
    IF ~bluetooth
    THEN [u EXCEPT !.error = Some(MsgNotAvailable)]
    ELSE [u EXCEPT !.isScanning = TRUE, !.error = Null, !.devices = <<>>]

\* The requestDevice call scanForDevices issues, with the list it found.
ScanRequest(u) ==
    IF ~bluetooth THEN <<>> ELSE <<[devicesAtCall |-> u.devices]>>

ScanCalls == IF ~bluetooth THEN <<>> ELSE <<Call("requestDevice", "", "", <<>>)>>

\* The mount effects: the support check, then (main, unfiltered) the automatic
\* scan.  Both read isSupported and devices of the first render.
Mount ==
    /\ phase = "constructed"
    /\ LET checked == IF ~bluetooth
                      THEN [UI EXCEPT !.isSupported = FALSE, !.error = Some(MsgNotSupported)]
                      ELSE UI
           n == IF HasAutoScan(variant) THEN MountEffectRuns ELSE 0
           after == IF n > 0 THEN ScanBegin(checked) ELSE checked
           requests == IF bluetooth THEN n ELSE 0
       IN  /\ Commit(after)
           /\ scans' = [i \in 1..requests |-> [devicesAtCall |-> <<>>]]
           /\ last' = StepOf("mount", "", TRUE, "",
                           [i \in 1..requests |-> Call("requestDevice", "", "", <<>>)])
    /\ phase' = "mounted"
    /\ UNCHANGED <<variant, bluetooth, strictMode, gattConnected, listeners, attempts, writes, timers>>

\* The Scan button: disabled={isScanning}.
ScanClick ==
    /\ Rendered
    /\ ~isScanning
    /\ Commit(ScanBegin(UI))
    /\ scans' = scans \o ScanRequest(UI)
    /\ last' = StepOf("scan", "", TRUE, "", ScanCalls)
    /\ UNCHANGED <<variant, bluetooth, strictMode, phase, gattConnected, listeners, attempts, writes, timers>>

\* requestDevice resolved with a device: the try block after the await, then finally.
ScanFound(u, d) ==
    [u EXCEPT !.devices = AddDevice(u.devices, BleDeviceOf(d)), !.isScanning = FALSE]

\* A faulty catch path: the finally block is not run.
ScanFailedNoFinally(u, err) ==
    [u EXCEPT !.error = Some(ScanErrorMessage(variant, err))]

\* requestDevice rejected: the catch block, then finally.
ScanFailed(u, err) ==
    [u EXCEPT !.error = Some(ScanErrorMessage(variant, err)), !.isScanning = FALSE]

ScanResolve ==
    \E i \in 1..Len(scans), d \in Offered(variant) :
        /\ Commit(ScanFound(UI, d))
        /\ scans' = RemoveAt(scans, i)
        /\ last' = StepOf("scanResolved", d, TRUE, "", <<>>)
        /\ UNCHANGED <<variant, bluetooth, strictMode, phase, gattConnected, listeners, attempts, writes, timers>>

ScanReject ==
    \E i \in 1..Len(scans), err \in ScanFailures :
        /\ Commit(ScanFailed(UI, err))
        /\ scans' = RemoveAt(scans, i)
        /\ last' = StepOf("scanRejected", "", FALSE, err.name, <<>>)
        /\ UNCHANGED <<variant, bluetooth, strictMode, phase, gattConnected, listeners, attempts, writes, timers>>

(***************************************************************************)
(* Connection manager.                                                     *)
(***************************************************************************)
MsgDisconnected(v) ==
    IF v = "unfiltered" THEN "Device disconnected"
    ELSE "Device disconnected. Click 'Connect' to reconnect."

\* The gattserverdisconnected observer connectToDevice installs.
HandleDisconnect(u) ==
    IF variant = "unfiltered"
    THEN [u EXCEPT !.connectionStatus = "disconnected",
                   !.error = Some(MsgDisconnected(variant))]
    ELSE [u EXCEPT !.connectionStatus = "disconnected",
                   !.error = Some(MsgDisconnected(variant)),
                   !.deviceInfo = Null,
                   !.selectedDevice = Null]

\* A running handler: the cells so far, the platform's connected flags so
\* far, the platform calls issued so far.
Run(u, g, calls) == [u |-> u, g |-> g, calls |-> calls]

\* The link to d ends: gatt.connected turns false and the platform
\* dispatches gattserverdisconnected to the observers installed on d.
LinkEnds(r, d) ==
    Run(IF listeners[d] > 0 THEN HandleDisconnect(r.u) ELSE r.u,
        [r.g EXCEPT ![d] = FALSE],
        r.calls)

\* device.gatt.disconnect(): no effect unless connected.
GattDisconnect(r, d) ==
    LET called == [r EXCEPT !.calls = Append(@, Call("disconnect", d, "", <<>>))]
    IN  IF r.g[d] THEN LinkEnds(called, d) ELSE called

\* if (x?.device?.gatt?.connected) x.device.gatt.disconnect()
DisconnectIfConnected(r, d) == IF r.g[d] THEN GattDisconnect(r, d) ELSE r

\* The effect keyed on [selectedDevice] (main, glass): when the cell has
\* changed, React runs the cleanup of the previous render, which disconnects
\* the device that was selected if it is still connected.  The observers this
\* runs may change the cell again.
RECURSIVE SelectedDeviceEffect(_, _)
SelectedDeviceEffect(prev, r) ==
    IF variant = "unfiltered" \/ r.u.selectedDevice = prev THEN r
    ELSE IF prev # Null /\ r.g[prev[1].id]
         THEN SelectedDeviceEffect(r.u.selectedDevice, GattDisconnect(r, prev[1].id))
         ELSE r

\* DeviceInfo as getDeviceInformation creates it.
EmptyInfo == [services |-> <<>>, allCharacteristics |-> <<>>, batteryLevel |-> Null,
              manufacturer |-> Null, modelNumber |-> Null, serialNumber |-> Null,
              hardwareRevision |-> Null, firmwareRevision |-> Null, softwareRevision |-> Null]

\* A connectToDevice call suspended at an await: the device, the await it is
\* at (pc, and k for the awaits inside loops), the info built so far and the
\* allChars of getAllCharacteristics.
Attempt(d, pc) == [dev |-> d, pc |-> pc, k |-> 0, info |-> EmptyInfo, allChars |-> <<>>]

\* connectToDevice up to its await.
ConnectBegin(u, b) ==
    IF variant = "unfiltered"
    THEN [u EXCEPT !.connectionStatus = "connecting", !.error = Null,
                   !.selectedDevice = Some(b)]
    ELSE [u EXCEPT !.connectionStatus = "connecting", !.error = Null,
                   !.selectedDevice = Some(b), !.deviceInfo = Null]

\* The row of device b shows "Connected" and the Disconnect button.
ShowsDisconnect(b) ==
    /\ selectedDevice # Null
    /\ selectedDevice[1].id = b.id
    /\ connectionStatus = "connected"

\* The device list is rendered (glass hides it while connected).
ListRendered ==
    /\ Rendered
    /\ Len(devices) > 0
    /\ variant = "glass" => connectionStatus # "connected"

\* connect() calls on d that may still install an observer.
Connecting(d) == Cardinality({i \in 1..Len(attempts) : attempts[i].dev = d /\ attempts[i].pc = "connect"})

\* The Connect button of a row: disabled={connectionStatus === "connecting"}.
ConnectClick ==
    \E i \in 1..Len(devices) :
        LET b == devices[i]
            r == SelectedDeviceEffect(selectedDevice,
                     Run(ConnectBegin(UI, b), gattConnected,
                         <<Call("connect", b.id, "", <<>>)>>))
        IN  /\ ListRendered
            /\ ~ShowsDisconnect(b)
            /\ connectionStatus # "connecting"
            /\ Len(attempts) < MaxAttempts
            /\ listeners[b.id] + Connecting(b.id) < MaxListeners
            /\ Commit(r.u)
            /\ gattConnected' = r.g
            /\ attempts' = Append(attempts, Attempt(b.id, "connect"))
            /\ last' = StepOf("connect", b.id, TRUE, "", r.calls)
            /\ UNCHANGED <<variant, bluetooth, strictMode, phase, listeners, scans, writes, timers>>

\* gatt.connect() resolved and server.connected is true: the observer is
\* installed and the services are asked for.
ConnectSucceeded(u) == [u EXCEPT !.connectionStatus = "connected"]

ConnectResolve ==
    \E i \in 1..Len(attempts) :
        LET a == attempts[i]
            d == a.dev
        IN  /\ a.pc = "connect"
            /\ Commit(ConnectSucceeded(UI))
            /\ gattConnected' = [gattConnected EXCEPT ![d] = TRUE]
            /\ listeners' = [listeners EXCEPT ![d] = @ + 1]
            /\ attempts' = [attempts EXCEPT ![i].pc =
                               IF variant = "unfiltered" THEN "services" ELSE "gdi_services"]
            /\ last' = StepOf("connected", d, TRUE, "",
                              <<Call("addEventListener", d, "gattserverdisconnected", <<>>),
                                Call("getPrimaryServices", d, "", <<>>)>>)
            /\ UNCHANGED <<variant, bluetooth, strictMode, phase, scans, writes, timers>>

\* gatt.connect() resolved to a server that is not connected: the else branch.
ConnectUnconnected(r, d) ==
    LET failed == [r EXCEPT !.u.connectionStatus = "failed",
                            !.u.error = Some("Failed to establish GATT connection")]
    IN  IF variant = "unfiltered" THEN failed ELSE DisconnectIfConnected(failed, d)

ConnectResolveUnconnected ==
    \E i \in 1..Len(attempts) :
        LET a == attempts[i]
            d == a.dev
            r == SelectedDeviceEffect(selectedDevice,
                     ConnectUnconnected(Run(UI, [gattConnected EXCEPT ![d] = FALSE], <<>>), d))
        IN  /\ a.pc = "connect"
            /\ Commit(r.u)
            /\ gattConnected' = r.g
            /\ attempts' = RemoveAt(attempts, i)
            /\ last' = StepOf("connectUnconnected", d, TRUE, "", r.calls)
            /\ UNCHANGED <<variant, bluetooth, strictMode, phase, listeners, scans, writes, timers>>

ConnectErrorMessage(err) ==
    IF err.isError THEN "Connection failed: " \o err.message
    ELSE "Failed to connect to device"

\* A faulty catch block: it goes on to ask for the services.
ConnectFailedThenInspects(r, d, err) ==
    LET failed == [r EXCEPT !.u.connectionStatus = "failed"]
        closed == IF variant = "unfiltered" THEN failed ELSE DisconnectIfConnected(failed, d)
    IN  [closed EXCEPT !.u.error = Some(ConnectErrorMessage(err)),
                       !.calls = Append(@, Call("getPrimaryServices", d, "", <<>>))]

\* gatt.connect() rejected: the catch block.
ConnectFailed(r, d, err) ==
    LET failed == [r EXCEPT !.u.connectionStatus = "failed"]
        closed == IF variant = "unfiltered" THEN failed ELSE DisconnectIfConnected(failed, d)
    IN  [closed EXCEPT !.u.error = Some(ConnectErrorMessage(err))]

\* The platform rejects connect(), leaving the link down or half open.
ConnectReject ==
    \E i \in 1..Len(attempts), err \in ConnectFailures, halfOpen \in BOOLEAN :
        LET a == attempts[i]
            d == a.dev
            r == SelectedDeviceEffect(selectedDevice,
                     ConnectFailed(Run(UI, [gattConnected EXCEPT ![d] = halfOpen], <<>>), d, err))
        IN  /\ a.pc = "connect"
            /\ Commit(r.u)
            /\ gattConnected' = r.g
            /\ attempts' = RemoveAt(attempts, i)
            /\ last' = StepOf("connectRejected", d, FALSE, err.name, r.calls)
            /\ UNCHANGED <<variant, bluetooth, strictMode, phase, listeners, scans, writes, timers>>

\* disconnectFromDevice.
ManualDisconnect(r) ==
    LET d == r.u.selectedDevice[1].id
        closed == GattDisconnect(r, d)
    IN  IF r.u.selectedDevice = Null \/ ~r.g[d] THEN r
        ELSE IF variant = "unfiltered"
        THEN [closed EXCEPT !.u.connectionStatus = "disconnected",
                            !.u.selectedDevice = Null]
        ELSE [closed EXCEPT !.u.connectionStatus = "disconnected",
                            !.u.selectedDevice = Null,
                            !.u.deviceInfo = Null,
                            !.u.error = Null,
                            !.u.sendStatus = Null]

\* The Disconnect button of the connected row (main, unfiltered).
DisconnectClick ==
    \E i \in 1..Len(devices) :
        LET r == SelectedDeviceEffect(selectedDevice,
                     ManualDisconnect(Run(UI, gattConnected, <<>>)))
        IN  /\ ListRendered
            /\ HasDisconnectButton(variant)
            /\ ShowsDisconnect(devices[i])
            /\ Commit(r.u)
            /\ gattConnected' = r.g
            /\ last' = StepOf("disconnect", devices[i].id, TRUE, "", r.calls)
            /\ UNCHANGED <<variant, bluetooth, strictMode, phase, listeners, scans, attempts, writes, timers>>

\* The platform loses the link to a connected device.
LinkLost ==
    \E d \in DeviceIds :
        LET r == SelectedDeviceEffect(selectedDevice,
                     LinkEnds(Run(UI, gattConnected, <<>>), d))
        IN  /\ phase = "mounted"
            /\ gattConnected[d]
            /\ Commit(r.u)
            /\ gattConnected' = r.g
            /\ last' = StepOf("linkLost", d, TRUE, "", r.calls)
            /\ UNCHANGED <<variant, bluetooth, strictMode, phase, listeners, scans, attempts, writes, timers>>

\* The variants with the cleanup effect keyed on [selectedDevice].
HasCleanup(v) == v \in {"main", "glass"}

\* if (selectedDevice?.device?.gatt?.connected) selectedDevice.device.gatt.disconnect()
CloseSelected(r) ==
    IF r.u.selectedDevice = Null THEN r
    ELSE DisconnectIfConnected(r, r.u.selectedDevice[1].id)

\* The page-close signal: handleBeforeUnload.  The component stays mounted
\* and its observers run.  When the selected device is not connected the
\* handler does nothing.
BeforeUnload ==
    LET r == SelectedDeviceEffect(selectedDevice, CloseSelected(Run(UI, gattConnected, <<>>)))
    IN  /\ phase = "mounted"
        /\ HasCleanup(variant)
        /\ selectedDevice # Null
        /\ gattConnected[selectedDevice[1].id]
        /\ Commit(r.u)
        /\ gattConnected' = r.g
        /\ last' = StepOf("beforeunload", "", TRUE, "", r.calls)
        /\ UNCHANGED <<variant, bluetooth, strictMode, phase, listeners, scans, attempts,
                       writes, timers>>

\* The cells of a component that does not exist: the useState initial values.
NoCells ==
    [devices |-> <<>>, isScanning |-> FALSE, error |-> Null, selectedDevice |-> Null,
     connectionStatus |-> "idle", isSupported |-> TRUE, deviceInfo |-> Null,
     isSending |-> FALSE, sendStatus |-> Null, selectedCharacteristic |-> Null]

\* The component is unmounted: the cleanup of the effect runs where there is
\* one, and the cells are gone with the component (state updates of an
\* unmounted component are discarded).  The model follows the component up
\* to here: what is still in flight is dropped.
Unmount ==
    LET r == IF HasCleanup(variant) THEN CloseSelected(Run(UI, gattConnected, <<>>))
             ELSE Run(UI, gattConnected, <<>>)
    IN  /\ phase = "mounted"
        /\ phase' = "unmounted"
        /\ Commit(NoCells)
        /\ gattConnected' = r.g
        /\ scans' = <<>>
        /\ attempts' = <<>>
        /\ writes' = <<>>
        /\ timers' = <<>>
        /\ last' = [StepOf("unmount", "", TRUE, "", r.calls) EXCEPT !.listed = <<>>]
        /\ UNCHANGED <<variant, bluetooth, strictMode, listeners>>

(***************************************************************************)
(* Device inspector: getDeviceInformation, getAllCharacteristics and        *)
(* readCharacteristic, cut at their awaits.  A platform call on a device    *)
(* whose link is down rejects.                                              *)
(***************************************************************************)
Handle(d, sv, uuid) == [dev |-> d, service |-> sv, uuid |-> uuid]

\* The CharacteristicInfo getAllCharacteristics pushes for one characteristic.
CharacteristicInfo(d, sv, c) ==
    [uuid |-> c.uuid, serviceUuid |-> sv,
     properties |-> Props(c.properties.read, c.properties.write,
                          c.properties.writeWithoutResponse, c.properties.notify),
     characteristic |-> Handle(d, sv, c.uuid)]

\* A faulty getAllCharacteristics: the characteristic's own uuid is recorded
\* as the uuid of its service.
InfosOfUnowned(d, sv) ==
    LET cs == CharacteristicsOf(d, sv)[1]
    IN  [j \in 1..Len(cs) |-> CharacteristicInfo(d, cs[j].uuid, cs[j])]

InfosOf(d, sv) ==
    LET cs == CharacteristicsOf(d, sv)[1]
    IN  [j \in 1..Len(cs) |-> CharacteristicInfo(d, sv, cs[j])]

\* allCharacteristics.find(c => c.properties.write || c.properties.writeWithoutResponse)
RECURSIVE FindWritable(_)
FindWritable(cs) ==
    IF cs = <<>> THEN Null
    ELSE IF cs[1].properties.write \/ cs[1].properties.writeWithoutResponse
         THEN Some(cs[1])
         ELSE FindWritable(Tail(cs))

\* What a step of the inspector leaves: the attempt if it is suspended again
\* (Null when connectToDevice has returned), the cells, the calls issued.
Suspended(a, pc, k, u, call) ==
    [att |-> Some([a EXCEPT !.pc = pc, !.k = k]), u |-> u, calls |-> <<call>>]

\* A faulty connectToDevice that treats the return of getDeviceInformation
\* as a failed connection.
ReturnedAsFailure(a, u) ==
    [att |-> Null,
     u |-> [u EXCEPT !.deviceInfo = Some(a.info), !.connectionStatus = "failed",
                     !.error = Some("Failed to establish GATT connection")],
     calls |-> <<>>]

\* getDeviceInformation returns info: setDeviceInfo(info).
Returned(a, u) ==
    [att |-> Null, u |-> [u EXCEPT !.deviceInfo = Some(a.info)], calls |-> <<>>]

\* getAllCharacteristics has returned: the auto-selection, then the battery
\* service is asked for.
AfterCharacteristics(a, u) ==
    LET a1 == [a EXCEPT !.info.allCharacteristics = a.allChars]
        w == FindWritable(a1.info.allCharacteristics)
        u1 == IF w # Null
              THEN [u EXCEPT !.selectedCharacteristic = Some(w[1].characteristic)]
              ELSE u
    IN  Suspended(a1, "battery", 0, u1, Call("getPrimaryService", a.dev, BatteryService, <<>>))

\* A faulty read of the byte: value.getInt8(0).
GetInt8(bytes) == IF bytes[1] >= 128 THEN bytes[1] - 256 ELSE bytes[1]

\* value.getUint8(0)
GetUint8(bytes) == bytes[1] % 256

\* A faulty battery block without its try/catch: a failed read ends
\* getDeviceInformation in its outer catch, which returns the info so far.
AfterBatteryUncaught(a, u, ok) ==
    IF ok /\ Len(BatteryBytes(a.dev)[1]) > 0
    THEN Suspended([a EXCEPT !.info.batteryLevel = Some(GetUint8(BatteryBytes(a.dev)[1]))],
                   "dis_service", 0, u,
                   Call("getPrimaryService", a.dev, DeviceInformation, <<>>))
    ELSE Returned(a, u)

\* A faulty battery block that reports a missing battery service.
AfterBatteryReportsError(a, u, ok) ==
    LET a1 == IF ok /\ Len(BatteryBytes(a.dev)[1]) > 0
              THEN [a EXCEPT !.info.batteryLevel = Some(GetUint8(BatteryBytes(a.dev)[1]))]
              ELSE a
        u1 == IF ok THEN u ELSE [u EXCEPT !.error = Some("Battery service not available")]
    IN  Suspended(a1, "dis_service", 0, u1,
                  Call("getPrimaryService", a.dev, DeviceInformation, <<>>))

\* The battery level read has settled; ok says whether all three awaits
\* resolved.  Then the device information service is asked for.
AfterBattery(a, u, ok) ==
    LET a1 == IF ok /\ Len(BatteryBytes(a.dev)[1]) > 0
              THEN [a EXCEPT !.info.batteryLevel = Some(GetUint8(BatteryBytes(a.dev)[1]))]
              ELSE a
    IN  Suspended(a1, "dis_service", 0, u,
                  Call("getPrimaryService", a.dev, DeviceInformation, <<>>))

\* readCharacteristic: the decoded string, or null when a call rejects.
ReadCharacteristic(d, f, up) ==
    IF up /\ InfoBytes(d, f) # Null THEN Some(Utf8Decode(InfoBytes(d, f)[1])) ELSE Null

\* A faulty conversion: (await readCharacteristic(...)) ?? undefined, which
\* keeps the empty string.
OrUndefinedKeepsEmpty(r) == r

\* (await readCharacteristic(...)) || undefined
OrUndefined(r) == IF r = Null \/ r[1] = <<>> THEN Null ELSE r

SetField(info, f, v) ==
    CASE f = "manufacturer" -> [info EXCEPT !.manufacturer = v]
      [] f = "modelNumber" -> [info EXCEPT !.modelNumber = v]
      [] f = "serialNumber" -> [info EXCEPT !.serialNumber = v]
      [] f = "hardwareRevision" -> [info EXCEPT !.hardwareRevision = v]
      [] f = "firmwareRevision" -> [info EXCEPT !.firmwareRevision = v]
      [] OTHER -> [info EXCEPT !.softwareRevision = v]

\* The continuation of attempt a after the call it awaits has settled; up is
\* gatt.connected of its device, readOk whether the battery read resolved.
Inspect(a, u, up, readOk) ==
    LET d == a.dev
        svs == ServicesOf(d)
    IN  CASE a.pc = "gdi_services" ->
               IF up /\ svs # <<>>
               THEN Suspended([a EXCEPT !.info.services = svs], "gac_services", 0, u,
                              Call("getPrimaryServices", d, "", <<>>))
               ELSE Returned(a, u)
          [] a.pc = "gac_services" ->
               IF up /\ svs # <<>>
               THEN Suspended(a, "gac_chars", 1, u, Call("getCharacteristics", d, svs[1], <<>>))
               ELSE AfterCharacteristics(a, u)
          [] a.pc = "gac_chars" ->
               LET got == IF up /\ CharacteristicsOf(d, svs[a.k]) # Null
                          THEN [a EXCEPT !.allChars = @ \o InfosOf(d, svs[a.k])]
                          ELSE a
               IN  IF a.k < Len(svs)
                   THEN Suspended(got, "gac_chars", a.k + 1, u,
                                  Call("getCharacteristics", d, svs[a.k + 1], <<>>))
                   ELSE AfterCharacteristics(got, u)
          [] a.pc = "battery" -> AfterBattery(a, u, readOk)
          [] a.pc = "dis_service" ->
               IF up /\ \E j \in 1..Len(svs) : svs[j] = DeviceInformation
               THEN Suspended(a, "dis_field", 1, u,
                              Call("readCharacteristic", d, InfoFields[1], <<>>))
               ELSE Returned(a, u)
          [] a.pc = "dis_field" ->
               LET got == [a EXCEPT !.info =
                              SetField(@, InfoFields[a.k],
                                       OrUndefined(ReadCharacteristic(d, InfoFields[a.k], up)))]
               IN  IF a.k < Len(InfoFields)
                   THEN Suspended(got, "dis_field", a.k + 1, u,
                                  Call("readCharacteristic", d, InfoFields[a.k + 1], <<>>))
                   ELSE Returned(got, u)
          [] OTHER -> [att |-> Null, u |-> u, calls |-> <<>>]

\* The battery read can resolve: the link is up and the service is there.
BatteryReadable(d) == gattConnected[d] /\ BatteryBytes(d) # Null

\* The call an attempt awaits settles.  The battery read may also reject on
\* a device that has the service.
InspectStep ==
    \E i \in 1..Len(attempts), readOk \in BOOLEAN :
        LET a == attempts[i]
            r == Inspect(a, UI, gattConnected[a.dev], readOk)
        IN  /\ a.pc # "connect"
            /\ readOk => (a.pc = "battery" /\ BatteryReadable(a.dev))
            /\ (a.pc # "battery") => ~readOk
            /\ Commit(r.u)
            /\ attempts' = IF r.att = Null THEN RemoveAt(attempts, i)
                           ELSE [attempts EXCEPT ![i] = r.att[1]]
            /\ last' = StepOf(a.pc, a.dev, IF a.pc = "battery" THEN readOk ELSE TRUE, "", r.calls)
            /\ UNCHANGED <<variant, bluetooth, strictMode, phase, gattConnected, listeners,
                           scans, writes, timers>>

\* The call an attempt awaits settles, where the platform may also reject a
\* call on a live link (a GATT operation that fails, a service or
\* characteristic that is not there).
InspectStepFlaky ==
    \E i \in 1..Len(attempts), up \in BOOLEAN, readOk \in BOOLEAN :
        LET a == attempts[i]
            r == Inspect(a, UI, up, readOk)
        IN  /\ a.pc # "connect"
            /\ up => gattConnected[a.dev]
            /\ readOk => (up /\ a.pc = "battery" /\ BatteryReadable(a.dev))
            /\ (a.pc # "battery") => ~readOk
            /\ Commit(r.u)
            /\ attempts' = IF r.att = Null THEN RemoveAt(attempts, i)
                           ELSE [attempts EXCEPT ![i] = r.att[1]]
            /\ last' = StepOf(a.pc, a.dev, IF a.pc = "battery" THEN readOk ELSE up, "", r.calls)
            /\ UNCHANGED <<variant, bluetooth, strictMode, phase, gattConnected, listeners,
                           scans, writes, timers>>

(***************************************************************************)
(* Characteristic writer: sendDataToDevice, cut at its await.              *)
(***************************************************************************)
\* The values the two send buttons pass.
Payloads == {"0", "1"}

\* The code points of a payload string.
CodePoints(value) == CASE value = "0" -> <<48>>
                       [] value = "1" -> <<49>>
                       [] OTHER -> <<>>

\* The emoji the status lines begin with: U+2705 and U+274C.
CheckMark == 9989
CrossMark == 10060

\* A status line `${emoji} ${text}`: the code point of its first character
\* and the text after the space that follows it.
Banner(mark, text) == [mark |-> mark, text |-> text]

\* setTimeout(() => setSendStatus(null), ms)
ClearAfterSuccess == 3000
ClearAfterFailure == 5000

\* A running sendDataToDevice: the cells so far, the writeValue calls it has
\* issued, the timers it has set.
Sending(u, w, t) == [u |-> u, writes |-> w, timers |-> t]

\* A faulty sendDataToDevice: the flag is raised before the guard.
SendBeginFlagFirst(u, value) ==
    IF u.selectedCharacteristic = Null
    THEN Sending([u EXCEPT !.isSending = TRUE,
                           !.sendStatus = Some(Banner(CrossMark, "No characteristic selected"))],
                 <<>>, <<ClearAfterSuccess>>)
    ELSE Sending([u EXCEPT !.isSending = TRUE, !.sendStatus = Null],
                 <<[target |-> u.selectedCharacteristic[1], value |-> value,
                    data |-> Utf8Encode(CodePoints(value))]>>,
                 <<>>)

\* A faulty sendDataToDevice that never raises the flag.
SendBeginNoFlag(u, value) ==
    IF u.selectedCharacteristic = Null
    THEN Sending([u EXCEPT !.sendStatus = Some(Banner(CrossMark, "No characteristic selected"))],
                 <<>>, <<ClearAfterSuccess>>)
    ELSE Sending([u EXCEPT !.sendStatus = Null],
                 <<[target |-> u.selectedCharacteristic[1], value |-> value,
                    data |-> Utf8Encode(CodePoints(value))]>>,
                 <<>>)

\* sendDataToDevice(value) up to its await, or to its return when no
\* characteristic is selected.
SendBegin(u, value) ==
    IF u.selectedCharacteristic = Null
    THEN Sending([u EXCEPT !.sendStatus = Some(Banner(CrossMark, "No characteristic selected"))],
                 <<>>, <<ClearAfterSuccess>>)
    ELSE Sending([u EXCEPT !.isSending = TRUE, !.sendStatus = Null],
                 <<[target |-> u.selectedCharacteristic[1], value |-> value,
                    data |-> Utf8Encode(CodePoints(value))]>>,
                 <<>>)

WriteCalls(ws) == [j \in 1..Len(ws) |-> Call("writeValue", ws[j].target.dev, ws[j].target.uuid, ws[j].data)]

\* The send buttons are rendered.
SendRendered ==
    /\ Rendered
    /\ HasInspector(variant)
    /\ connectionStatus = "connected"
    /\ selectedDevice # Null
    /\ deviceInfo # Null
    /\ Len(deviceInfo[1].allCharacteristics) > 0
    /\ selectedCharacteristic # Null

\* allCharacteristics.find(c => c.uuid === uuid)
RECURSIVE FindByUuid(_, _)
FindByUuid(cs, uuid) ==
    IF cs = <<>> THEN Null
    ELSE IF cs[1].uuid = uuid THEN Some(cs[1]) ELSE FindByUuid(Tail(cs), uuid)

CanWrite(c) == c.properties.write \/ c.properties.writeWithoutResponse

\* The options of the <select>: every characteristic in the main variant,
\* the writable ones in the glass variant.
SelectOptions(v, cs) == IF v = "glass" THEN SelectSeq(cs, CanWrite) ELSE cs

\* The <select> is rendered.
SelectRendered ==
    /\ Rendered
    /\ HasInspector(variant)
    /\ connectionStatus = "connected"
    /\ selectedDevice # Null
    /\ deviceInfo # Null
    /\ Len(deviceInfo[1].allCharacteristics) > 0

\* value={selectedCharacteristic?.uuid || ""}
SelectValue == IF selectedCharacteristic = Null THEN "" ELSE selectedCharacteristic[1].uuid

\* The user picks another option of the <select>: its onChange.
SelectCharacteristic ==
    LET cs == IF deviceInfo = Null THEN <<>> ELSE deviceInfo[1].allCharacteristics
        options == SelectOptions(variant, cs)
    IN  \E j \in 1..Len(options) :
            LET char == FindByUuid(cs, options[j].uuid)
            IN  /\ SelectRendered
                /\ SelectValue # options[j].uuid
                /\ Commit([UI EXCEPT !.selectedCharacteristic =
                               IF char = Null THEN Null ELSE Some(char[1].characteristic)])
                /\ last' = StepOf("select", selectedDevice[1].id, TRUE, "", <<>>)
                /\ UNCHANGED <<variant, bluetooth, strictMode, phase, gattConnected, listeners,
                               scans, attempts, writes, timers>>

\* A send button: disabled={isSending}.
SendClick ==
    \E value \in Payloads :
        LET r == SendBegin(UI, value)
        IN  /\ SendRendered
            /\ ~isSending
            /\ Len(timers) + Len(writes) < MaxTimers
            /\ Commit(r.u)
            /\ writes' = writes \o r.writes
            /\ timers' = timers \o r.timers
            /\ last' = StepOf("send", "", TRUE, "", WriteCalls(r.writes))
            /\ UNCHANGED <<variant, bluetooth, strictMode, phase, gattConnected, listeners, scans, attempts>>

\* A send button, with room for n writes and timers pending together.
SendWithin(n) ==
    \E value \in Payloads :
        LET r == SendBegin(UI, value)
        IN  /\ SendRendered
            /\ ~isSending
            /\ Len(timers) + Len(writes) < n
            /\ Commit(r.u)
            /\ writes' = writes \o r.writes
            /\ timers' = timers \o r.timers
            /\ last' = StepOf("send", "", TRUE, "", WriteCalls(r.writes))
            /\ UNCHANGED <<variant, bluetooth, strictMode, phase, gattConnected, listeners, scans, attempts>>

\* A send button pressed again while the banner of the send before is up.
SendPress == SendWithin(MaxPending)

\* sendDataToDevice called from outside the rendered controls (a test, a
\* stale closure): no guard of the interface applies.
SendCall ==
    \E value \in Payloads :
        LET r == SendBegin(UI, value)
        IN  /\ phase = "mounted"
            /\ HasInspector(variant)
            /\ Len(timers) + Len(writes) < MaxTimers
            /\ Commit(r.u)
            /\ writes' = writes \o r.writes
            /\ timers' = timers \o r.timers
            /\ last' = StepOf("send", "", TRUE, "", WriteCalls(r.writes))
            /\ UNCHANGED <<variant, bluetooth, strictMode, phase, gattConnected, listeners, scans, attempts>>

\* writeValue resolved: the try block after the await, then finally.
SendSucceeded(u, w) ==
    [u EXCEPT !.sendStatus = Some(Banner(CheckMark, "Sent: " \o w.value)), !.isSending = FALSE]

SendErrorText(err) ==
    IF err.isError THEN "Error: " \o err.message ELSE "Failed to send data"

\* A faulty catch block that reports the failure through setError as well.
SendFailedSetsError(u, err) ==
    [u EXCEPT !.sendStatus = Some(Banner(CrossMark, SendErrorText(err))),
              !.error = Some(SendErrorText(err)),
              !.isSending = FALSE]

\* A faulty sendDataToDevice without its finally block.
SendFailedNoFinally(u, err) ==
    [u EXCEPT !.sendStatus = Some(Banner(CrossMark, SendErrorText(err)))]

\* writeValue rejected: the catch block, then finally.
SendFailed(u, err) ==
    [u EXCEPT !.sendStatus = Some(Banner(CrossMark, SendErrorText(err))), !.isSending = FALSE]

\* The characteristic accepts writes.
Writable(h) ==
    \E j \in 1..Len(CharacteristicsOf(h.dev, h.service)[1]) :
        LET c == CharacteristicsOf(h.dev, h.service)[1][j]
        IN  c.uuid = h.uuid /\ (c.properties.write \/ c.properties.writeWithoutResponse)

\* The platform resolves a write only on a live link and a writable characteristic.
WriteResolve ==
    \E i \in 1..Len(writes) :
        LET w == writes[i]
        IN  /\ gattConnected[w.target.dev]
            /\ Writable(w.target)
            /\ Commit(SendSucceeded(UI, w))
            /\ writes' = RemoveAt(writes, i)
            /\ timers' = Append(timers, ClearAfterSuccess)
            /\ last' = StepOf("writeResolved", w.target.dev, TRUE, "", <<>>)
            /\ UNCHANGED <<variant, bluetooth, strictMode, phase, gattConnected, listeners, scans, attempts>>

WriteReject ==
    \E i \in 1..Len(writes), err \in WriteFailures :
        LET w == writes[i]
        IN  /\ Commit(SendFailed(UI, err))
            /\ writes' = RemoveAt(writes, i)
            /\ timers' = Append(timers, ClearAfterFailure)
            /\ last' = StepOf("writeRejected", w.target.dev, FALSE, err.name, <<>>)
            /\ UNCHANGED <<variant, bluetooth, strictMode, phase, gattConnected, listeners, scans, attempts>>

\* A faulty timer that recurs (setInterval): the callback runs and the timer
\* stays.
TimerRecurs ==
    \E i \in 1..Len(timers) :
        /\ Commit([UI EXCEPT !.sendStatus = Null])
        /\ last' = StepOf("timer", "", TRUE, "", <<>>)
        /\ UNCHANGED <<variant, bluetooth, strictMode, phase, gattConnected, listeners, scans,
                       attempts, writes, timers>>

\* A timer runs its callback: () => setSendStatus(null).
TimerFires ==
    \E i \in 1..Len(timers) :
        /\ Commit([UI EXCEPT !.sendStatus = Null])
        /\ timers' = RemoveAt(timers, i)
        /\ last' = StepOf("timer", "", TRUE, "", <<>>)
        /\ UNCHANGED <<variant, bluetooth, strictMode, phase, gattConnected, listeners, scans, attempts, writes>>

Next ==
    \/ Mount
    \/ ScanClick
    \/ ScanResolve
    \/ ScanReject
    \/ ConnectClick
    \/ ConnectResolve
    \/ ConnectResolveUnconnected
    \/ ConnectReject
    \/ DisconnectClick
    \/ LinkLost
    \/ BeforeUnload
    \/ Unmount
    \/ InspectStep
    \/ SelectCharacteristic
    \/ SendClick
    \/ WriteResolve
    \/ WriteReject
    \/ TimerFires

Spec == Init /\ [][Next]_vars

(***************************************************************************)
(* A session driven from outside: discovery, a connection and its          *)
(* inspection, and sendDataToDevice called directly at any moment.         *)
(***************************************************************************)
Direct ==
    \/ Mount
    \/ ScanClick
    \/ ScanResolve
    \/ ConnectClick
    \/ ConnectResolve
    \/ InspectStep
    \/ LinkLost
    \/ SendCall
    \/ WriteResolve
    \/ WriteReject
    \/ TimerFires

DirectSpec == Init /\ [][Direct]_vars

(***************************************************************************)
(* Discovery on its own, in either build: under StrictMode the mount       *)
(* effect runs twice and two requestDevice calls are outstanding at once.  *)
(***************************************************************************)
Discovery ==
    \/ Mount
    \/ ScanClick
    \/ ScanResolve
    \/ ScanReject

ScanSpec == InitAnyBuild /\ [][Discovery]_vars

\* The platform settles every requestDevice call: the chooser is closed by
\* a choice or by a cancellation.
ScanSettles == ScanResolve \/ ScanReject
ScanFairSpec == InitAnyBuild /\ [][Discovery]_vars /\ WF_vars(ScanSettles)

(***************************************************************************)
(* Properties of discovery.                                                *)
(***************************************************************************)
\* C1: whatever scans ran and however their resolutions interleaved, no two
\* entries of the devices list have the same id.
NoDuplicateIds ==
    \A i, j \in 1..Len(devices) : devices[i].id = devices[j].id => i = j

\* A device was discovered while it was already listed, and the list still
\* has exactly one element.
DiscoveredTwice ==
    /\ last.op = "scanResolved"
    /\ \E i \in 1..Len(last.listed) : last.listed[i].id = last.dev
    /\ Len(devices) = 1

\* C2: a scanForDevices call whose request rejects with NotFoundError leaves
\* the devices list as it was before the call and sets the error to the
\* "No device selected" text.  Stated for the production build, where no
\* other call runs between the call and its rejection.
CancelledScanKeepsList ==
    [][\A i \in 1..Len(scans) :
          (/\ ~strictMode
           /\ last'.op = "scanRejected"
           /\ last'.err = "NotFoundError"
           /\ scans' = RemoveAt(scans, i))
          => (/\ devices' = scans[i].devicesAtCall
              /\ error' = Some(MsgNoDeviceSelected))]_vars

\* C3: isScanning is true only while a requestDevice call is outstanding,
\* and whenever it is true it becomes false again.
ScanningOnlyWhileOutstanding ==
    /\ [](isScanning => Len(scans) > 0)
    /\ (isScanning ~> ~isScanning)

\* A request has been denied and the flag is down again.
ScanDeniedFlagDown ==
    /\ last.op = "scanRejected"
    /\ last.err = "SecurityError"
    /\ ~isScanning

(***************************************************************************)
(* Properties of the connection manager.                                   *)
(***************************************************************************)
\* C4: whenever connectionStatus is "connected" a device is selected, and
\* right after a session open succeeded it is the device of that session.
ConnectedHasSelection ==
    connectionStatus = "connected" =>
        /\ selectedDevice # Null
        /\ last.op = "connected" => selectedDevice[1].id = last.dev

\* C5: in every variant, when the platform has fired the disconnect event
\* for a connected device, connectionStatus is "disconnected", selectedDevice
\* is null and deviceInfo is null.
DisconnectEventResets ==
    (last.op = "linkLost" /\ listeners[last.dev] > 0) =>
        /\ connectionStatus = "disconnected"
        /\ selectedDevice = Null
        /\ deviceInfo = Null

\* C6: when gatt.connect() has thrown, connectToDevice ends with
\* connectionStatus "failed" and has issued gatt.disconnect() on the device.
RejectedConnectFailsAndDisconnects ==
    last.op = "connectRejected" =>
        /\ connectionStatus = "failed"
        /\ \E j \in 1..Len(last.calls) :
               last.calls[j].api = "disconnect" /\ last.calls[j].dev = last.dev

\* The edges of the documented state machine.
DocumentedEdges ==
    {<<"idle", "connecting">>, <<"connecting", "connected">>, <<"connecting", "failed">>,
     <<"connected", "disconnected">>, <<"failed", "connecting">>,
     <<"disconnected", "connecting">>}

\* C10: connectionStatus changes only along the documented edges.
StatusFollowsDocumentedEdges ==
    [][connectionStatus' # connectionStatus
         => <<connectionStatus, connectionStatus'>> \in DocumentedEdges]_vars

(***************************************************************************)
(* Properties of the device inspector.                                     *)
(***************************************************************************)
\* C9: the battery block of getDeviceInformation changes nothing but
\* batteryLevel, whether the read succeeds or not: services,
\* allCharacteristics, the six strings and the selected characteristic stay
\* as they are, the function goes on to the device information service, and
\* after a failed or impossible read batteryLevel is undefined.
BatteryFailureTouchesNothingElse ==
    [][last'.op = "battery" =>
         /\ Len(attempts') = Len(attempts)
         /\ selectedCharacteristic' = selectedCharacteristic
         /\ deviceInfo' = deviceInfo
         /\ \E i \in 1..Len(attempts) :
              /\ attempts[i].pc = "battery"
              /\ attempts[i].dev = last'.dev
              /\ attempts' = [attempts EXCEPT ![i] =
                                 [@ EXCEPT !.pc = "dis_service", !.k = 0,
                                           !.info.batteryLevel = attempts'[i].info.batteryLevel]]
              /\ ~last'.ok => attempts'[i].info.batteryLevel = Null]_vars

\* getDeviceInformation has returned on pb1, whose battery read failed on a
\* live link: no battery level, everything else gathered.
SnapshotWithoutBattery ==
    /\ last.op = "dis_field"
    /\ last.dev = "pb1"
    /\ deviceInfo # Null
    /\ deviceInfo[1].batteryLevel = Null
    /\ deviceInfo[1].services = ServicesOf("pb1")
    /\ Len(deviceInfo[1].allCharacteristics) = 4
    /\ deviceInfo[1].manufacturer = Some(<<65, 99, 109, 101>>)
    /\ deviceInfo[1].softwareRevision = Some(<<50, 46, 49>>)
    /\ selectedCharacteristic = Some(Handle("pb1", NordicUart, "6e400002-b5a3-f393-e0a9-e50e24dcca9e"))

(***************************************************************************)
(* Properties of the characteristic writer.                                *)
(***************************************************************************)
\* C7: sendDataToDevice called while selectedCharacteristic is null sets
\* sendStatus to an error line, issues no writeValue call and leaves
\* isSending false.
SendWithoutCharacteristic ==
    (last.op = "send" /\ selectedCharacteristic = Null) =>
        /\ sendStatus # Null
        /\ sendStatus[1].mark = CrossMark
        /\ last.calls = <<>>
        /\ writes = <<>>
        /\ ~isSending

\* sendDataToDevice has returned early with the error line shown and its
\* timer pending.
SentWithoutCharacteristic ==
    /\ last.op = "send"
    /\ selectedCharacteristic = Null
    /\ sendStatus = Some(Banner(CrossMark, "No characteristic selected"))
    /\ timers = <<ClearAfterSuccess>>

\* A status line that begins with no emoji.
Plain(text) == [mark |-> 0, text |-> text]

\* sendDataToDevice("0") issues exactly one writeValue call, of the byte 0x30,
\* and when the write resolves sendStatus is `line`.
SendZero(line) ==
    /\ (/\ last'.op = "send"
        /\ Len(writes') > Len(writes)
        /\ writes'[Len(writes')].value = "0")
       => (/\ Len(writes') = Len(writes) + 1
           /\ Len(last'.calls) = 1
           /\ last'.calls[1].api = "writeValue"
           /\ last'.calls[1].data = <<48>>)
    /\ \A i \in 1..Len(writes) :
         (/\ last'.op = "writeResolved"
          /\ writes' = RemoveAt(writes, i)
          /\ writes[i].value = "0")
         => sendStatus' = Some(line)

\* C8: sendDataToDevice("0") with a selected characteristic calls writeValue
\* exactly once with the bytes [0x30], and on success sendStatus equals
\* "Sent: 0".
SendZeroShowsSent == [][SendZero(Plain("Sent: 0"))]_vars

\* C8, as the code has it: on success sendStatus is the check mark U+2705, a
\* space and "Sent: 0".
SendZeroShowsMarkedSent == [][SendZero(Banner(CheckMark, "Sent: 0"))]_vars

\* A "0" has been written and the success line is shown.
ZeroWasSent ==
    /\ last.op = "writeResolved"
    /\ sendStatus = Some(Banner(CheckMark, "Sent: 0"))
    /\ ~isSending

(***************************************************************************)
(* Properties of the connection manager, continued.                        *)
(***************************************************************************)
\* C11: once connectionStatus is "disconnected" it stays so, and no
\* gatt.connect() call is issued, until the user invokes connectToDevice
\* again.  (The claim says the same of "failed".)
NoAutomaticRetry ==
    [][(connectionStatus = "disconnected" /\ last'.op # "connect") =>
         /\ connectionStatus' = connectionStatus
         /\ \A j \in 1..Len(last'.calls) : last'.calls[j].api # "connect"]_vars

\* C12: whenever connectionStatus is "disconnected" or "failed", deviceInfo
\* is null, also when the disconnect event came while the enumeration of
\* the session was running and the enumeration completed afterwards.
NoInfoUnlessConnected ==
    connectionStatus \in {"disconnected", "failed"} => deviceInfo = Null

\* C13: whenever connectionStatus is "failed" right after a connection
\* attempt failed, the gatt session of the attempted device is not connected.
FailedLeavesNoOpenSession ==
    (last.op \in {"connectRejected", "connectUnconnected"} /\ connectionStatus = "failed")
        => ~gattConnected[last.dev]

\* C14: in the variants with the cleanup effect, after the component is
\* unmounted or the page-close signal has fired, no device is left connected.
TeardownClosesSessions ==
    (HasCleanup(variant) /\ last.op \in {"unmount", "beforeunload"})
        => \A d \in DeviceIds : ~gattConnected[d]

\* C15: once connectToDevice for a device has completed successfully, the
\* selected write characteristic is null or a characteristic of that device,
\* and deviceInfo is the snapshot gathered from it.
SelectionSupersedesPrevious ==
    [][(/\ last'.op \in {"gdi_services", "dis_service", "dis_field"}
        /\ Len(attempts') < Len(attempts)
        /\ connectionStatus' = "connected"
        /\ selectedDevice' # Null /\ selectedDevice'[1].id = last'.dev)
       => /\ deviceInfo' # Null
          /\ selectedCharacteristic' = Null \/ selectedCharacteristic'[1].dev = last'.dev]_vars

\* C16: after a platform disconnect event or a disconnect by the user no
\* characteristic handle is held as the write target.
DisconnectDiscardsCharacteristic ==
    ((last.op = "linkLost" /\ listeners[last.dev] > 0) \/ last.op = "disconnect")
        => selectedCharacteristic = Null

(***************************************************************************)
(* Properties of the device inspector, continued.                          *)
(***************************************************************************)
\* The calls of the device inspector.
InspectorApis == {"getPrimaryServices", "getPrimaryService", "getCharacteristics",
                  "readCharacteristic"}

\* C19: the inspector's calls are issued for an attempt only after its
\* gatt.connect() resolved to a connected session: every step that issues
\* one is the success path or the inspector itself, so the not-connected
\* and the exception path issue none, and an attempt past its connect has
\* had its observer installed.
InspectorOnlyOnSuccess ==
    /\ \A j \in 1..Len(last.calls) :
         last.calls[j].api \in InspectorApis =>
             last.op \in {"connected", "services", "gdi_services", "gac_services",
                          "gac_chars", "battery", "dis_service", "dis_field"}
    /\ \A i \in 1..Len(attempts) :
         attempts[i].pc # "connect" => listeners[attempts[i].dev] > 0

\* A connect has thrown and connectToDevice has ended without a call of the
\* inspector.
FailedWithoutInspection ==
    /\ last.op = "connectRejected"
    /\ connectionStatus = "failed"
    /\ attempts = <<>>
    /\ \A j \in 1..Len(last.calls) : last.calls[j].api \notin InspectorApis

\* The six device-information reads, in the order of the claim.
SixReads == <<"manufacturer", "modelNumber", "serialNumber",
              "hardwareRevision", "firmwareRevision", "softwareRevision">>

\* The await b follows the await a in the fixed order.
Follows(a, b) ==
    CASE a.pc = "connect" -> b.pc \in {"services", "gdi_services"}
      [] a.pc = "gdi_services" -> b.pc = "gac_services"
      [] a.pc = "gac_services" -> (b.pc = "gac_chars" /\ b.k = 1) \/ b.pc = "battery"
      [] a.pc = "gac_chars" ->
           IF a.k < Len(ServicesOf(a.dev)) THEN b.pc = "gac_chars" /\ b.k = a.k + 1
           ELSE b.pc = "battery"
      [] a.pc = "battery" -> b.pc = "dis_service"
      [] a.pc = "dis_service" -> b.pc = "dis_field" /\ b.k = 1
      [] a.pc = "dis_field" -> b.pc = "dis_field" /\ b.k = a.k + 1 /\ b.k <= Len(SixReads)
      [] OTHER -> FALSE

\* The call an attempt suspended at b awaits.
AwaitedCall(b) ==
    CASE b.pc \in {"services", "gdi_services", "gac_services"} ->
           Call("getPrimaryServices", b.dev, "", <<>>)
      [] b.pc = "gac_chars" -> Call("getCharacteristics", b.dev, ServicesOf(b.dev)[b.k], <<>>)
      [] b.pc = "battery" -> Call("getPrimaryService", b.dev, BatteryService, <<>>)
      [] b.pc = "dis_service" -> Call("getPrimaryService", b.dev, DeviceInformation, <<>>)
      [] OTHER -> Call("readCharacteristic", b.dev, SixReads[b.k], <<>>)

\* C20: within one connect action the platform calls are issued one at a
\* time, each after the one before has settled, in the fixed order: connect,
\* the services, the characteristics of each service in service order, the
\* battery level, then the six strings in the order manufacturer, model,
\* serial, hardware, firmware, software.
CallsAreSequential ==
    [][\A i \in 1..Len(attempts) :
          (Len(attempts') = Len(attempts) /\ attempts'[i] # attempts[i]) =>
              /\ Follows(attempts[i], attempts'[i])
              /\ Len(last'.calls) >= 1
              /\ last'.calls[Len(last'.calls)] = AwaitedCall(attempts'[i])
              /\ \A j \in 1..(Len(last'.calls) - 1) :
                     last'.calls[j].api = "addEventListener"]_vars

\* The sixth read has been issued, the five before it having settled.
SixthReadIssued ==
    /\ Len(attempts) = 1
    /\ attempts[1].pc = "dis_field"
    /\ attempts[1].k = 6
    /\ last.calls = <<Call("readCharacteristic", attempts[1].dev, "softwareRevision", <<>>)>>

(***************************************************************************)
(* Properties of the characteristic writer, continued.                     *)
(***************************************************************************)
\* C17: every writeValue call targets a characteristic that accepts writes,
\* whether it was selected automatically or picked in the <select>.
WritesTargetWritable ==
    \A i \in 1..Len(writes) : Writable(writes[i].target)

(***************************************************************************)
(* Recovery: a session in which every outstanding platform call settles.   *)
(* The page-close signal, teardown and the <select> are left out: they     *)
(* raise none of the three flags.  The user asks for another scan only     *)
(* while no connect, write or timer is pending.                            *)
(***************************************************************************)
ScanWhenIdle == ScanClick /\ attempts = <<>> /\ writes = <<>> /\ timers = <<>>

Recovery ==
    \/ Mount
    \/ ScanWhenIdle
    \/ ScanResolve
    \/ ScanReject
    \/ ConnectClick
    \/ ConnectResolve
    \/ ConnectResolveUnconnected
    \/ ConnectReject
    \/ DisconnectClick
    \/ LinkLost
    \/ InspectStep
    \/ SendClick
    \/ WriteResolve
    \/ WriteReject
    \/ TimerFires

\* The settlements of the outstanding connect() and writeValue() calls.
ConnectSettles == ConnectResolve \/ ConnectResolveUnconnected \/ ConnectReject
WriteSettles == WriteResolve \/ WriteReject

RecoverySpec ==
    /\ Init
    /\ [][Recovery]_vars
    /\ WF_vars(ScanSettles)
    /\ WF_vars(ConnectSettles)
    /\ WF_vars(InspectStep)
    /\ WF_vars(WriteSettles)

\* The user starts an operation: a scan, a connect or a send.
UserStarts == Mount \/ ScanWhenIdle \/ ConnectClick \/ SendClick

\* The state in which the user can retry.
Retryable == ~isScanning /\ ~isSending /\ connectionStatus # "connecting"

\* C18: when every outstanding platform call settles, from every state,
\* whatever failed before, the component reaches a state with isScanning
\* false, isSending false and connectionStatus not "connecting"; and once
\* the user starts nothing new it stays in such a state.
NothingIsFatal ==
    /\ ~Retryable ~> Retryable
    /\ <>[][~UserStarts]_vars => <>[]Retryable

\* A write has failed and the user can retry.
RetryableAfterWriteFailure ==
    /\ last.op = "writeRejected"
    /\ Retryable
    /\ sendStatus # Null

(***************************************************************************)
(* Inspection: a session of discovery, connection and inspection in which  *)
(* each platform call of the inspector may reject by itself, and every     *)
(* such call settles.  The user scans before the first connect only.       *)
(***************************************************************************)
ScanFirst == ScanClick /\ connectionStatus = "idle"

Inspection ==
    \/ Mount
    \/ ScanFirst
    \/ ScanResolve
    \/ ConnectClick
    \/ ConnectResolve
    \/ DisconnectClick
    \/ LinkLost
    \/ InspectStepFlaky

InspectionSpec == Init /\ [][Inspection]_vars /\ WF_vars(InspectStepFlaky)

(***************************************************************************)
(* Properties of the device inspector under calls that reject one by one.  *)
(***************************************************************************)
\* What getAllCharacteristics is to record for characteristic c of service sv.
Recorded(d, sv, c) ==
    [uuid |-> c.uuid, serviceUuid |-> sv,
     properties |-> [read |-> c.properties.read, write |-> c.properties.write,
                     writeWithoutResponse |-> c.properties.writeWithoutResponse,
                     notify |-> c.properties.notify],
     characteristic |-> [dev |-> d, service |-> sv, uuid |-> c.uuid]]

\* C21: when getCharacteristics of a service settles, the characteristics
\* gathered from the services before it are kept, in order; the service's
\* own characteristics are appended in order, each with its uuid, its
\* service's uuid and its four flags, if the call resolved, and nothing if
\* it rejected; and the list getAllCharacteristics returns after the last
\* service is the list so gathered.
CharacteristicsIsolated ==
    [][\A i \in 1..Len(attempts) :
          (attempts[i].pc = "gac_chars" /\ last'.op = "gac_chars"
             /\ Len(attempts') = Len(attempts) /\ attempts'[i] # attempts[i]) =>
              LET a == attempts[i]
                  sv == ServicesOf(a.dev)[a.k]
                  cs == CharacteristicsOf(a.dev, sv)
                  got == IF last'.ok /\ cs # Null
                         THEN [j \in 1..Len(cs[1]) |-> Recorded(a.dev, sv, cs[1][j])]
                         ELSE <<>>
              IN  /\ attempts'[i].allChars = a.allChars \o got
                  /\ a.k = Len(ServicesOf(a.dev)) =>
                        attempts'[i].info.allCharacteristics = a.allChars \o got]_vars

\* On a live link the device-information service of pb1 failed to
\* enumerate and the characteristics of the services before and after it
\* were returned.
OneServiceFailed ==
    /\ Len(attempts) = 1
    /\ attempts[1].dev = "pb1"
    /\ attempts[1].pc = "battery"
    /\ gattConnected["pb1"]
    /\ Len(attempts[1].info.allCharacteristics) = 3
    /\ attempts[1].info.allCharacteristics[1].serviceUuid = BatteryService
    /\ attempts[1].info.allCharacteristics[2].serviceUuid = NordicUart
    /\ attempts[1].info.allCharacteristics[3].serviceUuid = NordicUart

\* C22: when the top-level getPrimaryServices rejects, info gathering ends
\* there: no gatt.disconnect() is called and no link is closed,
\* connectionStatus and error keep their values (a status of "connected"
\* stays "connected", a null error stays null), and deviceInfo becomes a
\* snapshot with no services and no characteristics.
ServicesFailureKeepsSession ==
    [][(last'.op = "gdi_services" /\ ~last'.ok) =>
          /\ \A j \in 1..Len(last'.calls) : last'.calls[j].api # "disconnect"
          /\ gattConnected' = gattConnected
          /\ connectionStatus' = connectionStatus
          /\ error' = error
          /\ Len(attempts') < Len(attempts)
          /\ deviceInfo' # Null
          /\ deviceInfo'[1].services = <<>>
          /\ deviceInfo'[1].allCharacteristics = <<>>]_vars

\* getPrimaryServices has rejected on a live link and the session is kept.
ServicesFailedWhileConnected ==
    /\ last.op = "gdi_services"
    /\ ~last.ok
    /\ gattConnected[last.dev]
    /\ connectionStatus = "connected"
    /\ error = Null
    /\ deviceInfo # Null
    /\ deviceInfo[1].services = <<>>

\* The positions of the characteristics that accept writes.
WritablePositions(cs) ==
    {j \in 1..Len(cs) : cs[j].properties.write \/ cs[j].properties.writeWithoutResponse}

\* C23: when getAllCharacteristics has returned on a live link, the write
\* target is the first characteristic in enumeration order whose write or
\* writeWithoutResponse flag is true, and no characteristic is selected when
\* the device exposes none.
DefaultTargetIsFirstWritable ==
    [][\A i \in 1..Len(attempts) :
          (/\ attempts[i].pc \in {"gac_services", "gac_chars"}
           /\ last'.op = attempts[i].pc
           /\ gattConnected[attempts[i].dev]
           /\ Len(attempts') = Len(attempts)
           /\ attempts'[i].pc = "battery") =>
              LET cs == attempts'[i].info.allCharacteristics
                  w == WritablePositions(cs)
              IN  IF w = {} THEN selectedCharacteristic' = Null
                  ELSE selectedCharacteristic' =
                           Some(cs[CHOOSE j \in w : \A k \in w : j <= k].characteristic)]_vars

\* The field f of a snapshot.
GetField(info, f) ==
    CASE f = "manufacturer" -> info.manufacturer
      [] f = "modelNumber" -> info.modelNumber
      [] f = "serialNumber" -> info.serialNumber
      [] f = "hardwareRevision" -> info.hardwareRevision
      [] f = "firmwareRevision" -> info.firmwareRevision
      [] OTHER -> info.softwareRevision

\* The snapshot after a step of attempt i: the one the attempt holds, or
\* the one connectToDevice has stored when the attempt has ended.
SnapshotAfter(i) ==
    IF Len(attempts') = Len(attempts) THEN attempts'[i].info ELSE deviceInfo'[1]

\* The read of the k-th string settles: the field is set to value, the
\* other five fields are untouched, and the next string is read.
FieldReadSettles(i, value) ==
    LET a == attempts[i]
        f == SixReads[a.k]
    IN  /\ GetField(SnapshotAfter(i), f) = value
        /\ \A g \in {SixReads[j] : j \in 1..Len(SixReads)} \ {f} :
               GetField(SnapshotAfter(i), g) = GetField(a.info, g)
        /\ a.k < Len(SixReads) =>
               /\ Len(attempts') = Len(attempts)
               /\ attempts'[i].pc = "dis_field"
               /\ attempts'[i].k = a.k + 1
               /\ last'.calls = <<Call("readCharacteristic", a.dev, SixReads[a.k + 1], <<>>)>>

\* C24 as stated: a field is undefined exactly when its characteristic is
\* absent or its read fails, and holds its decoded value otherwise; the
\* other fields are untouched and the next field is read in every case.
FieldsReadIndependently ==
    [][\A i \in 1..Len(attempts) :
          (attempts[i].pc = "dis_field" /\ last'.op = "dis_field"
             /\ (\/ attempts' = RemoveAt(attempts, i)
                 \/ Len(attempts') = Len(attempts) /\ attempts'[i] # attempts[i])) =>
              LET bytes == InfoBytes(attempts[i].dev, SixReads[attempts[i].k])
              IN  FieldReadSettles(i, IF last'.ok /\ bytes # Null
                                      THEN Some(Utf8Decode(bytes[1])) ELSE Null)]_vars

\* C24, amended: a field is undefined exactly when its characteristic is
\* absent, its read fails or the string read is empty, and holds its
\* decoded value otherwise; the other fields are untouched and the next
\* field is read in every case.
NonEmptyFieldsReadIndependently ==
    [][\A i \in 1..Len(attempts) :
          (attempts[i].pc = "dis_field" /\ last'.op = "dis_field"
             /\ (\/ attempts' = RemoveAt(attempts, i)
                 \/ Len(attempts') = Len(attempts) /\ attempts'[i] # attempts[i])) =>
              LET bytes == InfoBytes(attempts[i].dev, SixReads[attempts[i].k])
              IN  FieldReadSettles(i, IF last'.ok /\ bytes # Null /\ bytes[1] # <<>>
                                      THEN Some(Utf8Decode(bytes[1])) ELSE Null)]_vars

\* On a live link the manufacturer read of pb1 failed and the firmware and
\* software revisions, read after it, are in the snapshot.
LaterFieldsReadAfterFailure ==
    /\ last.op = "dis_field"
    /\ last.dev = "pb1"
    /\ attempts = <<>>
    /\ gattConnected["pb1"]
    /\ deviceInfo # Null
    /\ deviceInfo[1].manufacturer = Null
    /\ deviceInfo[1].firmwareRevision = Some(<<49, 46, 48>>)
    /\ deviceInfo[1].softwareRevision = Some(<<50, 46, 49>>)

\* getDeviceInformation is running for some attempt (main, glass).
Inspecting ==
    HasInspector(variant) /\ \E i \in 1..Len(attempts) : attempts[i].pc # "connect"

\* C25: no step of the inspector, whatever is absent or rejects, changes
\* error or connectionStatus, so after a successful connect the error stays
\* null and the status "connected"; and in the variants that gather the
\* information the inspection ends with deviceInfo a snapshot, unless a
\* disconnect has taken the status from "connected".
AbsenceIsNoError ==
    /\ [][last'.op \in {"gdi_services", "gac_services", "gac_chars", "battery",
                        "dis_service", "dis_field"}
            => (error' = error /\ connectionStatus' = connectionStatus)]_vars
    /\ Inspecting ~> (deviceInfo # Null \/ connectionStatus # "connected")

\* A connected device showed no characteristic, no battery level and no
\* device information, and the snapshot is there without an error.
BareDeviceInspected ==
    /\ last.op = "dis_service"
    /\ ~last.ok
    /\ attempts = <<>>
    /\ gattConnected[last.dev]
    /\ connectionStatus = "connected"
    /\ error = Null
    /\ deviceInfo # Null
    /\ deviceInfo[1].allCharacteristics = <<>>
    /\ deviceInfo[1].batteryLevel = Null
    /\ \A j \in 1..Len(SixReads) : GetField(deviceInfo[1], SixReads[j]) = Null

(***************************************************************************)
(* Writing: a session of one connection in which the user sends again and  *)
(* again, every write settles and every timer fires.                       *)
(***************************************************************************)
Writing ==
    \/ Mount
    \/ ScanFirst
    \/ ScanResolve
    \/ ConnectClick
    \/ ConnectResolve
    \/ InspectStep
    \/ DisconnectClick
    \/ LinkLost
    \/ SendPress
    \/ WriteResolve
    \/ WriteReject
    \/ TimerFires

WritingSpec == Init /\ [][Writing]_vars /\ WF_vars(WriteSettles) /\ WF_vars(TimerFires)

(***************************************************************************)
(* Properties of the characteristic writer under repeated sends.           *)
(***************************************************************************)
\* C26: isSending is true exactly while a writeValue call issued by
\* sendDataToDevice is outstanding, and with the send buttons disabled
\* while it is true at most one write is outstanding.
SendingWhileWriteOutstanding ==
    /\ isSending <=> (writes # <<>>)
    /\ Len(writes) <= 1

\* A second send is outstanding while the timer of the first is pending.
SecondWriteOutstanding ==
    /\ isSending
    /\ Len(writes) = 1
    /\ Len(timers) = 1
    /\ last.op = "send"

(***************************************************************************)
(* Banners: the writing session, and sendDataToDevice also called with no  *)
(* characteristic selected.                                                *)
(***************************************************************************)
Banners == Writing \/ SendCall

BannerSpec == Init /\ [][Banners]_vars /\ WF_vars(WriteSettles) /\ WF_vars(TimerFires)

\* C27: each sendDataToDevice call schedules exactly one clear (at the call
\* when no characteristic is selected, else when its write settles), a
\* clear that fires is gone; when no write is outstanding and every
\* scheduled clear has fired sendStatus is null; and a banner that is up is
\* eventually cleared.
BannersAreCleared ==
    /\ [][/\ last'.op = "send" =>
               Len(writes') + Len(timers') = Len(writes) + Len(timers) + 1
          /\ last'.op \in {"writeResolved", "writeRejected"} =>
               (Len(writes') = Len(writes) - 1 /\ Len(timers') = Len(timers) + 1)
          /\ last'.op = "timer" =>
               (Len(timers') = Len(timers) - 1 /\ writes' = writes)]_vars
    /\ []((writes = <<>> /\ timers = <<>>) => sendStatus = Null)
    /\ (sendStatus # Null) ~> (sendStatus = Null)

\* The clear of the banner of a failed write has fired, and nothing is
\* pending.
BannerClearedAfterFailure ==
    /\ last.op = "timer"
    /\ timers = <<>>
    /\ writes = <<>>
    /\ sendStatus = Null
    /\ selectedCharacteristic # Null
    /\ ~gattConnected[selectedCharacteristic[1].dev]

\* C28: the delay of a scheduled clear depends on the kind of the banner it
\* is scheduled for only: the clear of a success banner is set to 3
\* seconds, the clear of a failure banner, the no-characteristic error
\* included, to 5 seconds.
DelayFollowsBannerKind ==
    [][(Len(timers') = Len(timers) + 1 /\ sendStatus' # Null) =>
          /\ sendStatus'[1].mark = CheckMark => timers'[Len(timers')] = ClearAfterSuccess
          /\ sendStatus'[1].mark = CrossMark => timers'[Len(timers')] = ClearAfterFailure]_vars

\* The text holds the part at its end, after one of the prefixes the catch
\* blocks use.
ContainsMessage(text, part) ==
    \E pre \in {"", "Error scanning for devices: "} : text = pre \o part

\* C29: a rejected requestDevice is classified by the thrown Error's name:
\* NotFoundError gives the "No device selected" message, SecurityError the
\* access-denied message of the variant, any other Error a message that
\* contains the platform's message; in every case the devices list and
\* connectionStatus are what they were before the rejection was handled.
DiscoveryFailuresClassified ==
    [][\A err \in ScanFailures :
          (/\ last'.op = "scanRejected"
           /\ err.isError
           /\ last'.err = err.name)
          => (/\ error' # Null
              /\ err.name = "NotFoundError" => error'[1] = MsgNoDeviceSelected
              /\ err.name = "SecurityError" => error'[1] = MsgAccessDenied(variant)
              /\ err.name \notin {"NotFoundError", "SecurityError"}
                    => (/\ ContainsMessage(error'[1], err.message)
                        /\ error'[1] \notin {MsgNoDeviceSelected, MsgAccessDenied(variant)})
              /\ devices' = devices
              /\ connectionStatus' = connectionStatus)]_vars

\* A scan started while a session was open was rejected with an Error that
\* is neither a cancellation nor a denial.
OtherScanErrorWhileConnected ==
    /\ last.op = "scanRejected"
    /\ last.err = "NotSupportedError"
    /\ connectionStatus = "connected"

\* The gatt.disconnect() calls among the calls of a step.
DisconnectCalls(calls) == {k \in 1..Len(calls) : calls[k].api = "disconnect"}

\* C30: when the user disconnects the selected device while its session is
\* open, the step issues exactly one gatt.disconnect() call, the observer
\* the session installed has run, and the step ends with connectionStatus
\* "disconnected" and selectedDevice, deviceInfo, error and sendStatus null.
UserDisconnectEndsClean ==
    [][(/\ last'.op = "disconnect"
        /\ selectedDevice # Null
        /\ gattConnected[selectedDevice[1].id])
       => (/\ Cardinality(DisconnectCalls(last'.calls)) = 1
           /\ ~gattConnected'[selectedDevice[1].id]
           /\ connectionStatus' = "disconnected"
           /\ selectedDevice' = Null
           /\ deviceInfo' = Null
           /\ error' = Null
           /\ sendStatus' = Null)]_vars

\* C31: at any time at most one gattserverdisconnected observer installed by
\* the component is active on each device.
OneObserverPerDevice ==
    \A d \in DeviceIds : listeners[d] <= 1

\* The value is the unsigned first byte battery_level reads on some device.
FirstBatteryByte(level) ==
    /\ level \in 0..255
    /\ \E d \in DeviceIds :
          /\ BatteryBytes(d) # Null
          /\ Len(BatteryBytes(d)[1]) > 0
          /\ level = BatteryBytes(d)[1][1]

\* C32: whenever batteryLevel is defined, in the info being gathered or in
\* deviceInfo, it is the unsigned value of the first byte read from
\* battery_level, an integer in 0..255.
BatteryLevelIsFirstByte ==
    /\ \A i \in 1..Len(attempts) :
          attempts[i].info.batteryLevel # Null
             => (/\ BatteryBytes(attempts[i].dev) # Null
                 /\ attempts[i].info.batteryLevel[1] = BatteryBytes(attempts[i].dev)[1][1]
                 /\ attempts[i].info.batteryLevel[1] \in 0..255)
    /\ (deviceInfo # Null /\ deviceInfo[1].batteryLevel # Null)
          => FirstBatteryByte(deviceInfo[1].batteryLevel[1])

\* The battery level of a device that answered with a byte above 127 is shown.
HighBatteryByteShown ==
    /\ deviceInfo # Null
    /\ deviceInfo[1].batteryLevel = Some(200)
    /\ connectionStatus = "connected"

\* The platform drops the link to a device that is not the selected one.
StaleLinkLost ==
    /\ last'.op = "linkLost"
    /\ selectedDevice # Null
    /\ selectedDevice[1].id # last'.dev

\* connectToDevice selects a device and the cleanup effect closes the
\* session of the device selected before.
SupersededTornDown ==
    /\ last'.op = "connect"
    /\ \E k \in DisconnectCalls(last'.calls) : last'.calls[k].dev # last'.dev

\* C33: a disconnect event delivered for a device that is not the selected
\* device changes none of connectionStatus, selectedDevice, deviceInfo and
\* error: when the link of such a device drops the four cells keep their
\* values, and when the cleanup effect tears the superseded device down the
\* cells are those connectToDevice set for the new attempt.
StaleDisconnectIsIgnored ==
    [][/\ StaleLinkLost
            => (/\ connectionStatus' = connectionStatus
                /\ selectedDevice' = selectedDevice
                /\ deviceInfo' = deviceInfo
                /\ error' = error)
       /\ SupersededTornDown
            => (/\ connectionStatus' = "connecting"
                /\ selectedDevice' # Null
                /\ selectedDevice'[1].id = last'.dev
                /\ deviceInfo' = Null
                /\ error' = Null)]_vars

\* The gatt.connect() calls issued by connectToDevice and not yet settled.
ConnectsInFlight == {i \in 1..Len(attempts) : attempts[i].pc = "connect"}

\* C34: at most one gatt.connect() call is in flight at any time, and
\* connectionStatus is "connecting" for as long as one is outstanding, which
\* keeps the Connect control disabled.
OneConnectInFlight ==
    /\ Cardinality(ConnectsInFlight) <= 1
    /\ ConnectsInFlight # {} => connectionStatus = "connecting"

\* The clear scheduled i-th fires while a clear scheduled later is pending;
\* the two have different delays, which tells the step from the later clear
\* firing.
EarlierClearFires(i) ==
    /\ last'.op = "timer"
    /\ i < Len(timers)
    /\ timers' = RemoveAt(timers, i)
    /\ timers' # RemoveAt(timers, Len(timers))

\* C35: a banner is cleared only by the clear its own sendDataToDevice call
\* scheduled: when a clear scheduled by an earlier send fires while the
\* banner of a later send is up, the banner stays.
BannerClearedByOwnTimer ==
    [][\A i \in 1..Len(timers) :
          (EarlierClearFires(i) /\ sendStatus # Null) => sendStatus' = sendStatus]_vars

\* C36: in the variants that render the Disconnect button inside the device
\* list, whenever a device is selected and connected a row of the list has
\* its id, so that its Disconnect button is rendered.
SelectedDeviceIsListed ==
    (HasDisconnectButton(variant) /\ selectedDevice # Null /\ connectionStatus = "connected")
       => \E i \in 1..Len(devices) : devices[i].id = selectedDevice[1].id

\* A step of sendDataToDevice: the call up to its await or return, or the
\* continuation after writeValue settled.
SendStep == last'.op \in {"send", "writeResolved", "writeRejected"}

\* C37: sendDataToDevice changes only isSending and sendStatus: whatever the
\* outcome (no characteristic, write resolved, write rejected) it leaves
\* connectionStatus, selectedDevice, deviceInfo, selectedCharacteristic,
\* devices and error as they were.
SendChangesOnlyItsCells ==
    [][SendStep =>
          /\ connectionStatus' = connectionStatus
          /\ selectedDevice' = selectedDevice
          /\ deviceInfo' = deviceInfo
          /\ selectedCharacteristic' = selectedCharacteristic
          /\ devices' = devices
          /\ error' = error]_vars

\* A write was rejected with the session, the information and the target
\* characteristic in place.
WriteRejectedInPlace ==
    /\ last.op = "writeRejected"
    /\ connectionStatus = "connected"
    /\ deviceInfo # Null
    /\ selectedCharacteristic # Null
    /\ devices # <<>>
    /\ sendStatus # Null

\* scanForDevices is called on a platform without navigator.bluetooth: by
\* the mount effect of the variants that scan automatically, or from the
\* Scan button.
ScanCalledWithoutBluetooth ==
    /\ ~bluetooth
    /\ \/ last'.op = "mount" /\ HasAutoScan(variant)
       \/ last'.op = "scan"

\* C38: when navigator.bluetooth is unavailable, scanForDevices sets the
\* error "Web Bluetooth API is not available", issues no requestDevice call,
\* never sets isScanning to true and leaves the devices list unchanged.
UnavailableScanDoesNothing ==
    /\ [][ScanCalledWithoutBluetooth =>
             /\ error' = Some(MsgNotAvailable)
             /\ last'.calls = <<>>
             /\ scans' = scans
             /\ isScanning' = isScanning
             /\ devices' = devices]_vars
    /\ [](~bluetooth => (~isScanning /\ scans = <<>>))

\* The automatic scan ran on a platform without navigator.bluetooth.
ScannedWithoutBluetooth ==
    /\ ~bluetooth
    /\ phase = "mounted"
    /\ HasAutoScan(variant)
    /\ last.op = "mount"
    /\ error = Some(MsgNotAvailable)


=============================================================================
